---- MODULE Spec2Model ----
(***************************************************************************)
(* The IFC consumer of qto_ifc-msg/src/index.ts: main() sets up and starts *)
(* a Kafka consumer whose message handler derives a storage key from the   *)
(* message value, fetches the object and its metadata, and forwards the    *)
(* assembled record downstream.                                            *)
(*                                                                         *)
(* The collaborators imported from ./kafka, ./minio and ./send are outside *)
(* the module under study: each call to them is answered by the            *)
(* environment with any of the outcomes such a call can have (a value, no  *)
(* value, or a thrown error).                                              *)
(***************************************************************************)
EXTENDS Integers, Sequences, FiniteSets, TLC

VARIABLES mainPc, mainLog, subscribed, cur, prev, inflight

vars == <<mainPc, mainLog, subscribed, cur, prev, inflight>>

(***************************************************************************)
(* Bounds of the model.                                                    *)
(***************************************************************************)
\* longest string message value
MaxLen == 2
\* longest byte-buffer message value
MaxBufLen == 1

(***************************************************************************)
(* JavaScript values that occur as message.value.                          *)
(***************************************************************************)
Alphabet == {"/", "a"}

Bytes == {47, 97}

\* UTF-8 decoding of one byte (Buffer.prototype.toString)
CharOf(b) == IF b = 47 THEN "/" ELSE "a"

JSNull == [t |-> "null"]

JSUndefined == [t |-> "undefined"]

Str(s) == [t |-> "string", chars |-> s]

Buf(b) == [t |-> "buffer", bytes |-> b]

SeqsUpTo(S, n) == UNION {[1..k -> S] : k \in 0..n}

\* what the broker client may hand to the handler as message.value
MessageValues ==
    {JSNull, JSUndefined}
        \cup {Str(s) : s \in SeqsUpTo(Alphabet, MaxLen)}
        \cup {Buf(b) : b \in SeqsUpTo(Bytes, MaxBufLen)}

\* JavaScript truthiness of message.value: null, undefined and "" are falsy;
\* every object, a zero-length Buffer included, is truthy
Truthy(v) ==
    CASE v.t = "null" -> FALSE
      [] v.t = "undefined" -> FALSE
      [] v.t = "string" -> Len(v.chars) > 0
      [] v.t = "buffer" -> TRUE

\* message.value.toString()
ValueToString(v) ==
    IF v.t = "string"
    THEN v.chars
    ELSE [i \in 1..Len(v.bytes) |-> CharOf(v.bytes[i])]

\* position of the last "/" of s, 0 when there is none
LastSlash(s) ==
    IF \E i \in 1..Len(s) : s[i] = "/"
    THEN CHOOSE i \in 1..Len(s) : s[i] = "/" /\ \A j \in (i+1)..Len(s) : s[j] # "/"
    ELSE 0

\* as LastSegment, had the first element of the split been taken (shift())
LastSegment_first(s) ==
    IF \E i \in 1..Len(s) : s[i] = "/"
    THEN SubSeq(s, 1, (CHOOSE i \in 1..Len(s) :
                          s[i] = "/" /\ \A j \in 1..(i-1) : s[j] # "/") - 1)
    ELSE s

\* downloadLink.split("/").pop(): the text after the last "/"
LastSegment(s) == SubSeq(s, LastSlash(s) + 1, Len(s))

FileIdOf(v) == LastSegment(ValueToString(v))

\* IFC_BUCKET_NAME = getEnv("MINIO_IFC_BUCKET")
IFC_BUCKET_NAME == "MINIO_IFC_BUCKET"

(***************************************************************************)
(* Outcomes of the external calls.                                         *)
(***************************************************************************)
Returned(v) == [kind |-> "return", v |-> v]

Thrown(name) == [kind |-> "throw", error |-> name]

NoFile == [t |-> "undefined"]

EmptyContent == [t |-> "string", chars |-> <<>>]

Blob(n) == [t |-> "blob", id |-> n]

FileValues == {NoFile, EmptyContent, Blob("B1"), Blob("B2")}

\* getFile(fileID, bucket, client): content, nothing, or an error
GetFileOutcomes ==
    {Returned(f) : f \in FileValues} \cup {Thrown("NotFound"), Thrown("Transport")}

NoMetadata == [t |-> "undefined"]

MetaObject(p, f, ts) == [t |-> "object", project |-> p, filename |-> f, timestamp |-> ts]

\* {}: every property reads as undefined
EmptyRecord == MetaObject("undefined", "undefined", "undefined")

MetadataValues ==
    {NoMetadata, EmptyRecord,
     MetaObject("P1", "model.ifc", "T1"), MetaObject("P2", "other.ifc", "T2")}

\* getFileMetadata(fileID, bucket, client): metadata, nothing, or an error
GetFileMetadataOutcomes ==
    {Returned(m) : m \in MetadataValues} \cup {Thrown("NotFound"), Thrown("Transport")}

SendOk == [t |-> "undefined"]

SendFailureResult == [t |-> "failure"]

\* sendIFCFile(ifcData): resolves (with or without a failure result) or throws
SendOutcomes == {Returned(SendOk), Returned(SendFailureResult), Thrown("Transport")}

(***************************************************************************)
(* The message handler (the callback given to startKafkaConsumer), as a    *)
(* function of the invocation's own bindings.  An invocation record holds  *)
(* the handler's position, its locals, and what it has done so far: the    *)
(* external calls it issued, the answers it received and its log lines.    *)
(***************************************************************************)
NoInvocation ==
    [pc |-> "idle", value |-> JSUndefined, fileID |-> <<>>, file |-> NoFile,
     calls |-> <<>>, answers |-> <<>>, logs |-> <<>>]

InfoLog(text, value) == [level |-> "info", text |-> text, arg |-> value]

\* log.error(`File ${fileID} not found`)
NotFoundLog(fileID) ==
    [level |-> "error", text |-> "File not found", arg |-> [t |-> "key", chars |-> fileID]]

\* log.error("Error processing Kafka message:", error)
ProcessingErrorLog(error) ==
    [level |-> "error", text |-> "Error processing Kafka message:",
     arg |-> [t |-> "error", name |-> error]]

GetFileCall(fileID) == [op |-> "getFile", key |-> fileID, bucket |-> IFC_BUCKET_NAME]

GetFileMetadataCall(fileID) ==
    [op |-> "getFileMetadata", key |-> fileID, bucket |-> IFC_BUCKET_NAME]

SendCall(ifcData) == [op |-> "sendIFCFile", data |-> ifcData]

\* as IfcData, with project and filename read from each other's property
IfcData_swapped(metadata, file) ==
    [project |-> metadata.filename, filename |-> metadata.project,
     timestamp |-> metadata.timestamp, file |-> file]

\* as IfcData, had the file property been left out of the record
IfcData_noFile(metadata, file) ==
    [project |-> metadata.project, filename |-> metadata.filename,
     timestamp |-> metadata.timestamp, file |-> [t |-> "undefined"]]

\* const ifcData: IFCData = { project, filename, timestamp, file }
IfcData(metadata, file) ==
    [project |-> metadata.project, filename |-> metadata.filename,
     timestamp |-> metadata.timestamp, file |-> file]

\* as Falsy, had the test been file === null || file === ""
Falsy_onlyNull(file) == file.t = "null" \/ (file.t = "string" /\ Len(file.chars) = 0)

\* if (!file)
Falsy(file) == file.t = "undefined" \/ (file.t = "string" /\ Len(file.chars) = 0)

\* as Catch, had the handler rethrown after logging
Catch_rethrow(inv, error) ==
    [inv EXCEPT !.pc = "raised", !.logs = Append(@, ProcessingErrorLog(error))]

\* catch (error) { log.error(...) }: the invocation ends normally
Catch(inv, error) ==
    [inv EXCEPT !.pc = "done", !.logs = Append(@, ProcessingErrorLog(error))]

\* as Handles, had the handler skipped a message it has just forwarded
Handles_dedup(value) ==
    /\ Truthy(value)
    /\ ~(cur.value = value /\ \E i \in 1..Len(cur.calls) : cur.calls[i].op = "sendIFCFile")

\* if (message.value): the guard of the handler's whole body
Handles(value) == Truthy(value)

\* From invocation to the first await: the guard, the info log, the key
\* derivation and the getFile call.
HandlerEnter(value) ==
    IF Handles(value)
    THEN [NoInvocation EXCEPT
            !.pc = "getFile",
            !.value = value,
            !.fileID = FileIdOf(value),
            !.logs = <<InfoLog("Processing Kafka message:", value)>>,
            !.calls = <<GetFileCall(FileIdOf(value))>>]
    ELSE [NoInvocation EXCEPT !.pc = "done", !.value = value]

\* as AfterGetFile, had a failing getFile been reported like a missing file
AfterGetFile_throwAsMissing(inv, outcome) ==
    LET got == [inv EXCEPT !.answers = Append(@, outcome)] IN
    IF outcome.kind = "throw" \/ Falsy(outcome.v)
    THEN [got EXCEPT !.pc = "done", !.logs = Append(@, NotFoundLog(inv.fileID))]
    ELSE [got EXCEPT
            !.pc = "getFileMetadata",
            !.file = outcome.v,
            !.calls = Append(@, GetFileMetadataCall(inv.fileID))]

\* as AfterGetFile, without the return that follows the not-found log
AfterGetFile_noReturn(inv, outcome) ==
    LET got == [inv EXCEPT !.answers = Append(@, outcome)] IN
    IF outcome.kind = "throw"
    THEN Catch(got, outcome.error)
    ELSE [got EXCEPT
            !.pc = "getFileMetadata",
            !.file = outcome.v,
            !.logs = IF Falsy(outcome.v) THEN Append(@, NotFoundLog(inv.fileID)) ELSE @,
            !.calls = Append(@, GetFileMetadataCall(inv.fileID))]

\* Resumption after await getFile(...)
AfterGetFile(inv, outcome) ==
    LET got == [inv EXCEPT !.answers = Append(@, outcome)] IN
    IF outcome.kind = "throw"
    THEN Catch(got, outcome.error)
    ELSE IF Falsy(outcome.v)
    THEN [got EXCEPT !.pc = "done", !.logs = Append(@, NotFoundLog(inv.fileID))]
    ELSE [got EXCEPT
            !.pc = "getFileMetadata",
            !.file = outcome.v,
            !.calls = Append(@, GetFileMetadataCall(inv.fileID))]

\* Resumption after await getFileMetadata(...): reading a property of an
\* absent metadata value throws a TypeError inside the try block
AfterGetFileMetadata(inv, outcome) ==
    LET got == [inv EXCEPT !.answers = Append(@, outcome)] IN
    IF outcome.kind = "throw"
    THEN Catch(got, outcome.error)
    ELSE IF outcome.v.t # "object"
    THEN Catch(got, "TypeError")
    ELSE [got EXCEPT
            !.pc = "sendIFCFile",
            !.calls = Append(@, SendCall(IfcData(outcome.v, inv.file)))]

\* as AfterSend, had the send stood outside the try block
AfterSend_uncaught(inv, outcome) ==
    LET got == [inv EXCEPT !.answers = Append(@, outcome)] IN
    IF outcome.kind = "throw"
    THEN [got EXCEPT !.pc = "raised"]
    ELSE [got EXCEPT !.pc = "done"]

\* Resumption after await sendIFCFile(ifcData): the result is not inspected
AfterSend(inv, outcome) ==
    LET got == [inv EXCEPT !.answers = Append(@, outcome)] IN
    IF outcome.kind = "throw"
    THEN Catch(got, outcome.error)
    ELSE [got EXCEPT !.pc = "done"]

(***************************************************************************)
(* What is remembered of the delivery before the current one.              *)
(***************************************************************************)
ErrorLogs(inv) == SelectSeq(inv.logs, LAMBDA l : l.level = "error")

SendCalls(inv) == SelectSeq(inv.calls, LAMBDA c : c.op = "sendIFCFile")

SendThrew(inv) ==
    /\ inv.pc = "done"
    /\ Len(inv.answers) = 3
    /\ inv.answers[3].kind = "throw"

NoPrevious ==
    [delivered |-> FALSE, same |-> FALSE, sendThrew |-> FALSE, errors |-> 0,
     answers |-> <<>>, calls |-> <<>>, logs |-> <<>>]

\* the summary of invocation inv, kept while the next message, of value next,
\* is handled; its calls and answers are kept when next is the same message
Remember(inv, next) ==
    IF inv.pc = "idle"
    THEN NoPrevious
    ELSE IF inv.value = next
    THEN [delivered |-> TRUE, same |-> TRUE, sendThrew |-> SendThrew(inv),
          errors |-> Len(ErrorLogs(inv)),
          answers |-> inv.answers, calls |-> inv.calls, logs |-> inv.logs]
    ELSE [NoPrevious EXCEPT
            !.delivered = TRUE, !.sendThrew = SendThrew(inv),
            !.errors = Len(ErrorLogs(inv))]

(***************************************************************************)
(* main()                                                                  *)
(***************************************************************************)
\* the handler invocations that may be in progress at once, when the
\* consumer does not wait for one to return before it delivers the next
Slots == {1, 2}

Init ==
    /\ mainPc = "setupKafkaConsumer"
    /\ mainLog = <<"Starting server...", "Setting up Kafka consumer...">>
    /\ subscribed = FALSE
    /\ cur = NoInvocation
    /\ prev = NoPrevious
    /\ inflight = [s \in Slots |-> NoInvocation]

\* await setupKafkaConsumer() resolves
SetupReturns ==
    /\ mainPc = "setupKafkaConsumer"
    /\ mainPc' = "startKafkaConsumer"
    /\ mainLog' = mainLog \o <<"setupKafkaConsumer resolved",
                               "Kafka consumer setup complete",
                               "Starting Kafka consumer...">>
    /\ UNCHANGED <<subscribed, cur, prev, inflight>>

\* as SetupThrows, had main() wrapped the call in a try block of its own
SetupThrows_swallowed ==
    /\ mainPc = "setupKafkaConsumer"
    /\ mainPc' = "startKafkaConsumer"
    /\ mainLog' = mainLog \o <<"setupKafkaConsumer rejected",
                               "Starting Kafka consumer...">>
    /\ UNCHANGED <<subscribed, cur, prev, inflight>>

\* await setupKafkaConsumer() rejects: main() rejects
SetupThrows ==
    /\ mainPc = "setupKafkaConsumer"
    /\ mainPc' = "rejected"
    /\ mainLog' = Append(mainLog, "setupKafkaConsumer rejected")
    /\ UNCHANGED <<subscribed, cur, prev, inflight>>

\* startKafkaConsumer establishes the subscription; messages flow from here on
StartSubscribes ==
    /\ mainPc = "startKafkaConsumer"
    /\ ~subscribed
    /\ subscribed' = TRUE
    /\ UNCHANGED <<mainPc, mainLog, cur, prev, inflight>>

\* await startKafkaConsumer(...) resolves; main logs its last line
StartReturns ==
    /\ mainPc = "startKafkaConsumer"
    /\ subscribed
    /\ mainPc' = "started"
    /\ mainLog' = mainLog \o <<"startKafkaConsumer resolved", "Kafka consumer started">>
    /\ UNCHANGED <<subscribed, cur, prev, inflight>>

\* await startKafkaConsumer(...) rejects before a subscription exists
StartThrows ==
    /\ mainPc = "startKafkaConsumer"
    /\ ~subscribed
    /\ mainPc' = "rejected"
    /\ mainLog' = Append(mainLog, "startKafkaConsumer rejected")
    /\ UNCHANGED <<subscribed, cur, prev, inflight>>

\* main().catch(log.error)
MainCatch ==
    /\ mainPc = "rejected"
    /\ mainPc' = "caught"
    /\ mainLog' = Append(mainLog, "log.error")
    /\ UNCHANGED <<subscribed, cur, prev, inflight>>

(***************************************************************************)
(* The consumer: one handler invocation per delivery, the next delivery    *)
(* after the previous invocation has returned.  An invocation that raised  *)
(* would leave the consumer without a running handler loop.                *)
(***************************************************************************)
Deliver ==
    /\ subscribed
    /\ cur.pc \in {"idle", "done"}
    /\ \E value \in MessageValues :
          /\ prev' = Remember(cur, value)
          /\ cur' = HandlerEnter(value)
    /\ UNCHANGED <<mainPc, mainLog, subscribed, inflight>>

GetFileAnswers ==
    /\ cur.pc = "getFile"
    /\ \E outcome \in GetFileOutcomes : cur' = AfterGetFile(cur, outcome)
    /\ UNCHANGED <<mainPc, mainLog, subscribed, prev, inflight>>

GetFileMetadataAnswers ==
    /\ cur.pc = "getFileMetadata"
    /\ \E outcome \in GetFileMetadataOutcomes : cur' = AfterGetFileMetadata(cur, outcome)
    /\ UNCHANGED <<mainPc, mainLog, subscribed, prev, inflight>>

SendAnswers ==
    /\ cur.pc = "sendIFCFile"
    /\ \E outcome \in SendOutcomes : cur' = AfterSend(cur, outcome)
    /\ UNCHANGED <<mainPc, mainLog, subscribed, prev, inflight>>

Next ==
    \/ SetupReturns
    \/ SetupThrows
    \/ StartSubscribes
    \/ StartReturns
    \/ StartThrows
    \/ MainCatch
    \/ Deliver
    \/ GetFileAnswers
    \/ GetFileMetadataAnswers
    \/ SendAnswers

Spec == Init /\ [][Next]_vars

(***************************************************************************)
(* Overlapping invocations.  The handler is an async function: it gives up *)
(* control at each await, and a consumer that delivers a message before    *)
(* the invocation for the previous one has returned has two invocations in *)
(* progress, resumed in any order.  The consumer is started; each slot     *)
(* holds one invocation.                                                   *)
(***************************************************************************)
\* messages handled while invocations overlap: string values with a key
OverlapValues == {v \in MessageValues : v.t = "string" /\ FileIdOf(v) # <<>>}

InitOverlap ==
    /\ mainPc = "started"
    /\ mainLog = <<"Starting server...", "Setting up Kafka consumer...",
                   "setupKafkaConsumer resolved", "Kafka consumer setup complete",
                   "Starting Kafka consumer...", "startKafkaConsumer resolved",
                   "Kafka consumer started">>
    /\ subscribed = TRUE
    /\ cur = NoInvocation
    /\ prev = NoPrevious
    /\ inflight = [s \in Slots |-> NoInvocation]

DeliverTo(s) ==
    /\ subscribed
    /\ inflight[s].pc \in {"idle", "done"}
    /\ \E value \in OverlapValues :
          inflight' = [inflight EXCEPT ![s] = HandlerEnter(value)]
    /\ UNCHANGED <<mainPc, mainLog, subscribed, cur, prev>>

GetFileAnswersTo(s) ==
    /\ inflight[s].pc = "getFile"
    /\ \E outcome \in GetFileOutcomes :
          inflight' = [inflight EXCEPT ![s] = AfterGetFile(inflight[s], outcome)]
    /\ UNCHANGED <<mainPc, mainLog, subscribed, cur, prev>>

\* as GetFileMetadataAnswersTo, had file been one binding of the module,
\* shared by the invocations, that the other invocation has assigned since
GetFileMetadataAnswersTo_sharedFile(s) ==
    /\ inflight[s].pc = "getFileMetadata"
    /\ \E outcome \in GetFileMetadataOutcomes :
          LET others == {o \in Slots \ {s} : inflight[o].file # NoFile}
              file == IF others = {}
                      THEN inflight[s].file
                      ELSE inflight[CHOOSE o \in others : TRUE].file
          IN inflight' = [inflight EXCEPT
                            ![s] = AfterGetFileMetadata([inflight[s] EXCEPT !.file = file],
                                                        outcome)]
    /\ UNCHANGED <<mainPc, mainLog, subscribed, cur, prev>>

GetFileMetadataAnswersTo(s) ==
    /\ inflight[s].pc = "getFileMetadata"
    /\ \E outcome \in GetFileMetadataOutcomes :
          inflight' = [inflight EXCEPT ![s] = AfterGetFileMetadata(inflight[s], outcome)]
    /\ UNCHANGED <<mainPc, mainLog, subscribed, cur, prev>>

SendAnswersTo(s) ==
    /\ inflight[s].pc = "sendIFCFile"
    /\ \E outcome \in SendOutcomes :
          inflight' = [inflight EXCEPT ![s] = AfterSend(inflight[s], outcome)]
    /\ UNCHANGED <<mainPc, mainLog, subscribed, cur, prev>>

NextOverlap ==
    \E s \in Slots :
        \/ DeliverTo(s)
        \/ GetFileAnswersTo(s)
        \/ GetFileMetadataAnswersTo(s)
        \/ SendAnswersTo(s)

SpecOverlap == InitOverlap /\ [][NextOverlap]_vars

(***************************************************************************)
(* Vocabulary of the properties.                                           *)
(***************************************************************************)
Range(seq) == {seq[i] : i \in 1..Len(seq)}

CallsOf(inv, op) == SelectSeq(inv.calls, LAMBDA c : c.op = op)

Invoked == cur.pc # "idle"

\* the outcome of the n-th external call of the current invocation is known
Answered(n) == Len(cur.answers) >= n

\* a message value that is absent or empty
EmptyValue(v) ==
    CASE v.t = "null" -> TRUE
      [] v.t = "undefined" -> TRUE
      [] v.t = "string" -> v.chars = <<>>
      [] v.t = "buffer" -> v.bytes = <<>>

ContentPresent(outcome) == outcome.kind = "return" /\ outcome.v.t = "blob"

MetadataPresent(outcome) ==
    /\ outcome.kind = "return"
    /\ outcome.v.t = "object"
    /\ outcome.v # EmptyRecord

(***************************************************************************)
(* C1: a handler invocation never raises to the consumer, whatever the     *)
(* message and whatever the external calls answer; after an invocation     *)
(* that logged a failure the consumer is still subscribed and can deliver  *)
(* the next message to the handler.                                        *)
(***************************************************************************)
C1_FailureContained ==
    /\ cur.pc \in {"idle", "getFile", "getFileMetadata", "sendIFCFile", "done"}
    /\ (Invoked => subscribed)
    /\ (cur.pc = "done" => ENABLED Deliver)

\* a message was handled to completion right after one that logged an error
C1_Witness ==
    /\ prev.delivered
    /\ prev.errors > 0
    /\ cur.pc = "done"
    /\ Len(cur.answers) > 0

(***************************************************************************)
(* C2: for a message whose value is absent or empty (null, undefined, the  *)
(* empty string, a zero-length buffer) the handler calls neither getFile   *)
(* nor getFileMetadata nor send, and logs no error.                        *)
(***************************************************************************)
C2_EmptyValueIsNoOp ==
    (Invoked /\ EmptyValue(cur.value)) =>
        /\ cur.calls = <<>>
        /\ ErrorLogs(cur) = <<>>

(***************************************************************************)
(* C3: when getFile yields nothing for the key, the handler fetches no     *)
(* metadata, sends nothing, and logs exactly one error, which names the    *)
(* key it asked for.                                                       *)
(***************************************************************************)
C3_ContentAbsent ==
    (Answered(1) /\ cur.answers[1] \in {Returned(NoFile), Returned(EmptyContent)}) =>
        /\ cur.pc = "done"
        /\ CallsOf(cur, "getFileMetadata") = <<>>
        /\ CallsOf(cur, "sendIFCFile") = <<>>
        /\ Len(ErrorLogs(cur)) = 1
        /\ ErrorLogs(cur)[1].arg = [t |-> "key", chars |-> cur.calls[1].key]

C3_Witness ==
    /\ cur.pc = "done"
    /\ Answered(1)
    /\ cur.answers[1] = Returned(NoFile)
    /\ cur.calls[1].key = <<"a">>
    /\ Len(ErrorLogs(cur)) = 1

(***************************************************************************)
(* C4: when content is present but getFileMetadata yields no metadata (a   *)
(* missing value, an empty record, or a not-found error), no send call     *)
(* occurs and exactly one error is logged.                                 *)
(***************************************************************************)
C4_MetadataAbsent ==
    (/\ Answered(2)
     /\ ContentPresent(cur.answers[1])
     /\ cur.answers[2] \in {Returned(NoMetadata), Returned(EmptyRecord), Thrown("NotFound")}) =>
        /\ CallsOf(cur, "sendIFCFile") = <<>>
        /\ Len(ErrorLogs(cur)) = 1

(***************************************************************************)
(* C5, as claimed: for a message with a valid key whose content and        *)
(* metadata are both present, exactly one send call occurs, its record     *)
(* has the metadata's project, filename and timestamp and the retrieved    *)
(* content as file, and no error is logged.                                *)
(***************************************************************************)
ForwardCase ==
    /\ cur.fileID # <<>>
    /\ Answered(2)
    /\ ContentPresent(cur.answers[1])
    /\ MetadataPresent(cur.answers[2])

ExpectedRecord ==
    [project |-> cur.answers[2].v.project, filename |-> cur.answers[2].v.filename,
     timestamp |-> cur.answers[2].v.timestamp, file |-> cur.answers[1].v]

C5_ForwardedNoErrorLog ==
    ForwardCase =>
        /\ CallsOf(cur, "sendIFCFile") = <<SendCall(ExpectedRecord)>>
        /\ ErrorLogs(cur) = <<>>

(***************************************************************************)
(* C5, amended: for a message with a valid key whose content and metadata  *)
(* are both present, exactly one send call occurs and its record has the   *)
(* metadata's project, filename and timestamp and the retrieved content as *)
(* file; no error is logged unless that send call throws, in which case    *)
(* exactly one is.                                                         *)
(***************************************************************************)
C5_Forwarded ==
    ForwardCase =>
        /\ CallsOf(cur, "sendIFCFile") = <<SendCall(ExpectedRecord)>>
        /\ Len(cur.calls) = 3
        /\ IF Answered(3) /\ cur.answers[3].kind = "throw"
           THEN Len(ErrorLogs(cur)) = 1
           ELSE ErrorLogs(cur) = <<>>

C5_Witness ==
    /\ ForwardCase
    /\ cur.pc = "done"
    /\ cur.answers[3] = Returned(SendOk)
    /\ cur.calls[3].data =
         [project |-> "P1", filename |-> "model.ifc", timestamp |-> "T1", file |-> Blob("B1")]
    /\ ErrorLogs(cur) = <<>>

(***************************************************************************)
(* C6: whenever the send reports failure for a record, by throwing or by   *)
(* returning a failure result, the handler logs an error that carries the  *)
(* record's project and filename, and makes no second send.                *)
(***************************************************************************)
SendFailed ==
    /\ Answered(3)
    /\ cur.answers[3] \in {Thrown("Transport"), Returned(SendFailureResult)}

LogCarries(l, record) ==
    /\ {"project", "filename"} \subseteq DOMAIN l.arg
    /\ l.arg.project = record.project
    /\ l.arg.filename = record.filename

C6_SendFailureLogged ==
    SendFailed =>
        /\ \E l \in Range(ErrorLogs(cur)) : LogCarries(l, cur.calls[3].data)
        /\ Len(CallsOf(cur, "sendIFCFile")) = 1

(***************************************************************************)
(* C7: an error thrown by the send is logged and does not raise past the   *)
(* handler, and the message delivered next is still processed: the         *)
(* handler issues that message's own getFile call.                         *)
(***************************************************************************)
C7_SendErrorContained ==
    /\ (Answered(3) /\ cur.answers[3].kind = "throw") =>
          /\ cur.pc = "done"
          /\ Len(ErrorLogs(cur)) = 1
          /\ ErrorLogs(cur)[1] = ProcessingErrorLog(cur.answers[3].error)
          /\ ENABLED Deliver
    /\ prev.sendThrew =>
          /\ prev.errors = 1
          /\ Invoked
          /\ (~EmptyValue(cur.value) =>
                /\ cur.calls # <<>>
                /\ cur.calls[1] = GetFileCall(LastSegment(ValueToString(cur.value))))

\* the message after one whose send threw was itself forwarded
C7_Witness ==
    /\ prev.sendThrew
    /\ cur.pc = "done"
    /\ CallsOf(cur, "getFile") # <<>>
    /\ Answered(3)
    /\ cur.answers[3] = Returned(SendOk)

(***************************************************************************)
(* C8: when the same message is delivered twice in a row, the second       *)
(* invocation does what the first did wherever the external calls answer   *)
(* alike: it issues the same first call, after equal answers the same      *)
(* next call, so that two forwards carry identical records; and with all   *)
(* answers equal its calls and log lines are those of the first.           *)
(***************************************************************************)
SameUpTo(n) ==
    /\ Len(prev.answers) >= n
    /\ Len(cur.answers) >= n
    /\ SubSeq(prev.answers, 1, n) = SubSeq(cur.answers, 1, n)

C8_RedeliveryRepeats ==
    prev.same =>
        /\ \A n \in 0..2 :
              (SameUpTo(n) /\ Len(prev.calls) > n) =>
                  /\ Len(cur.calls) > n
                  /\ cur.calls[n + 1] = prev.calls[n + 1]
        /\ (cur.pc = "done" /\ cur.answers = prev.answers) =>
              /\ cur.calls = prev.calls
              /\ cur.logs = prev.logs

\* both deliveries of one message were forwarded, with the same record
C8_Witness ==
    /\ prev.same
    /\ cur.pc = "done"
    /\ Len(SendCalls(prev)) = 1
    /\ Len(SendCalls(cur)) = 1
    /\ SendCalls(cur)[1].data = SendCalls(prev)[1].data
    /\ cur.answers[3] = Returned(SendOk)
    /\ prev.answers[3] = Returned(SendOk)

(***************************************************************************)
(* C9: the storage key is never empty when used: a non-empty message value *)
(* whose final path segment is empty is dropped with an error log, and     *)
(* neither getFile nor getFileMetadata is ever called with an empty key.   *)
(***************************************************************************)
EndsInSlash(v) ==
    /\ ~EmptyValue(v)
    /\ LET s == ValueToString(v) IN s[Len(s)] = "/"

C9_KeyNeverEmpty ==
    /\ \A c \in Range(cur.calls) :
          c.op \in {"getFile", "getFileMetadata"} => c.key # <<>>
    /\ (Invoked /\ EndsInSlash(cur.value)) =>
          /\ cur.pc = "done"
          /\ cur.calls = <<>>
          /\ Len(ErrorLogs(cur)) = 1

(***************************************************************************)
(* C10: "Kafka consumer started" is logged only after setupKafkaConsumer   *)
(* and then startKafkaConsumer have both resolved; if either rejects, it   *)
(* is never logged and the handler is never invoked.                       *)
(***************************************************************************)
Ready == "Kafka consumer started" \in Range(mainLog)

BootstrapFailed ==
    \/ "setupKafkaConsumer rejected" \in Range(mainLog)
    \/ "startKafkaConsumer rejected" \in Range(mainLog)

C10_ReadyAfterSubscription ==
    /\ Ready =>
          /\ subscribed
          /\ \E i, j, k \in 1..Len(mainLog) :
                /\ i < j /\ j < k
                /\ mainLog[i] = "setupKafkaConsumer resolved"
                /\ mainLog[j] = "startKafkaConsumer resolved"
                /\ mainLog[k] = "Kafka consumer started"
    /\ BootstrapFailed =>
          /\ ~Ready
          /\ ~Invoked
          /\ ~prev.delivered

\* readiness was signalled and a message has been handled since
C10_Witness ==
    /\ Ready
    /\ mainPc = "started"
    /\ cur.pc = "done"

(***************************************************************************)
(* C11: a failure of setupKafkaConsumer or startKafkaConsumer is fatal: it *)
(* is not retried, it propagates out of main, and once the entry point has *)
(* dealt with it the process is aborted.                                   *)
(***************************************************************************)
Occurrences(seq, x) == Cardinality({i \in 1..Len(seq) : seq[i] = x})

\* the process was ended with a failure status
ProcessAborted == mainPc = "aborted"

C11_BootstrapFailureAborts ==
    BootstrapFailed =>
        /\ Occurrences(mainLog, "setupKafkaConsumer rejected")
             + Occurrences(mainLog, "startKafkaConsumer rejected") = 1
        /\ ~subscribed
        /\ (mainPc = "rejected" \/ ProcessAborted)

(***************************************************************************)
(* C12: the external calls of a delivery form a prefix of getFile(k),      *)
(* getFileMetadata(k), send(record); metadata is fetched only after        *)
(* content was found and the send is made only after both were retrieved;  *)
(* a finished delivery is in exactly one of the terminal states Skipped,   *)
(* Sent or logged failure, and every one that is neither Sent nor Skipped  *)
(* has logged an error.                                                    *)
(***************************************************************************)
IsPrefixOfProtocol(calls) ==
    /\ Len(calls) <= 3
    /\ (Len(calls) >= 1 => calls[1].op = "getFile")
    /\ (Len(calls) >= 2 =>
          /\ calls[2].op = "getFileMetadata"
          /\ calls[2].key = calls[1].key)
    /\ (Len(calls) >= 3 => calls[3].op = "sendIFCFile")

Skipped == cur.pc = "done" /\ cur.calls = <<>> /\ ErrorLogs(cur) = <<>>

Sent ==
    /\ cur.pc = "done"
    /\ Answered(3)
    /\ cur.answers[3] = Returned(SendOk)
    /\ ErrorLogs(cur) = <<>>

LoggedFailure ==
    /\ cur.pc = "done"
    /\ ErrorLogs(cur) # <<>>
    /\ ~(Answered(3) /\ cur.answers[3] = Returned(SendOk))

C12_DeliveryProtocol ==
    /\ IsPrefixOfProtocol(cur.calls)
    /\ (Len(cur.calls) >= 2 => (Answered(1) /\ ContentPresent(cur.answers[1])))
    /\ (Len(cur.calls) >= 3 => (Answered(2) /\ MetadataPresent(cur.answers[2])))
    /\ (cur.pc = "done" => (Skipped \/ Sent \/ LoggedFailure))

(***************************************************************************)
(* C13: every error log written for a failure that occurs after the key    *)
(* was extracted (content fetch error, missing content, missing metadata,  *)
(* metadata fetch error, send failure) includes the message's key.         *)
(***************************************************************************)
LogNamesKey(l, key) == l.arg.t = "key" /\ l.arg.chars = key

C13_ErrorLogsNameKey ==
    cur.fileID # <<>> =>
        \A l \in Range(ErrorLogs(cur)) : LogNamesKey(l, cur.calls[1].key)

(***************************************************************************)
(* C14: a transport error raised by getFile or getFileMetadata is logged   *)
(* as a different kind of error than a missing object: its log is the      *)
(* processing-error log and never the not-found log, the log of a missing  *)
(* object is the not-found log and never the processing-error log, and in  *)
(* both cases nothing is sent.                                             *)
(***************************************************************************)
TransportErrorAt(n) == Len(cur.answers) = n /\ cur.answers[n] = Thrown("Transport")

ObjectMissing == Answered(1) /\ cur.answers[1] \in {Returned(NoFile), Returned(EmptyContent)}

IsFinalSegment(k, s) ==
    \E n \in 0..Len(s) :
        /\ k = SubSeq(s, n + 1, Len(s))
        /\ "/" \notin Range(k)
        /\ (n = 0 \/ s[n] = "/")

C15_KeyIsFinalSegment ==
    (Invoked /\ ~EmptyValue(cur.value)) =>
        /\ cur.calls # <<>>
        /\ cur.calls[1].op = "getFile"
        /\ \A c \in Range(cur.calls) :
              c.op \in {"getFile", "getFileMetadata"} =>
                  /\ IsFinalSegment(c.key, ValueToString(cur.value))
                  /\ c.bucket = "MINIO_IFC_BUCKET"

\* both retrievals were made for the value "/a", with key "a"
C15_Witness ==
    /\ cur.value = Str(<<"/", "a">>)
    /\ Len(cur.calls) >= 2
    /\ cur.calls[1].key = <<"a">>
    /\ cur.calls[2].key = <<"a">>

(***************************************************************************)
(* C17: every record passed to send carries a file value that is present   *)
(* (neither absent nor empty) and is exactly what getFile returned for     *)
(* that delivery; content that is absent or the empty string is never      *)
(* forwarded and is reported as not found.                                 *)
(***************************************************************************)
PresentFile(f) == f.t # "undefined" /\ f.t # "null" /\ ~(f.t = "string" /\ f.chars = <<>>)

C17_ForwardedFileIsRetrievedContent ==
    /\ \A c \in Range(CallsOf(cur, "sendIFCFile")) :
          /\ PresentFile(c.data.file)
          /\ cur.answers[1].kind = "return"
          /\ c.data.file = cur.answers[1].v
    /\ (Answered(1) /\ cur.answers[1].kind = "return" /\ ~PresentFile(cur.answers[1].v)) =>
          /\ CallsOf(cur, "sendIFCFile") = <<>>
          /\ NotFoundLog(cur.calls[1].key) \in Range(cur.logs)

\* content B2 was forwarded as the file of the record
C17_Witness ==
    /\ Len(cur.calls) = 3
    /\ cur.answers[1] = Returned(Blob("B2"))
    /\ cur.calls[3].data.file = Blob("B2")

(***************************************************************************)
(* C18: no delivery produces more than one error log, whatever getFile,    *)
(* getFileMetadata and send answer; the not-found log and the              *)
(* processing-error log never occur in the same delivery.                  *)
(***************************************************************************)
C18_AtMostOneErrorLog ==
    /\ Len(ErrorLogs(cur)) <= 1
    /\ ~(/\ \E l \in Range(cur.logs) : l.text = "File not found"
         /\ \E l \in Range(cur.logs) : l.text = "Error processing Kafka message:")
    /\ prev.errors <= 1

\* a delivery ended with its one error log after all three calls were made
C18_Witness ==
    /\ cur.pc = "done"
    /\ Len(cur.calls) = 3
    /\ Len(ErrorLogs(cur)) = 1
    /\ prev.errors = 1

(***************************************************************************)
(* C16: when two handler invocations overlap and interleave at their       *)
(* awaits, each one's calls, sent record and log lines are those it would  *)
(* have produced running alone on its own message with the same answers:   *)
(* a record never holds one message's content with the other message's     *)
(* metadata.                                                               *)
(***************************************************************************)
\* what one invocation running alone does with value v when its external
\* calls are answered by the sequence a
Alone(v, a) ==
    LET e0 == HandlerEnter(v)
        e1 == IF Len(a) >= 1 THEN AfterGetFile(e0, a[1]) ELSE e0
        e2 == IF Len(a) >= 2 THEN AfterGetFileMetadata(e1, a[2]) ELSE e1
        e3 == IF Len(a) >= 3 THEN AfterSend(e2, a[3]) ELSE e2
    IN e3

OwnRecord(inv) ==
    \A c \in Range(SendCalls(inv)) :
        /\ c.data.file = inv.answers[1].v
        /\ c.data.project = inv.answers[2].v.project
        /\ c.data.filename = inv.answers[2].v.filename
        /\ c.data.timestamp = inv.answers[2].v.timestamp

C16_OverlapIsolated ==
    \A s \in Slots :
        inflight[s].pc # "idle" =>
            /\ inflight[s] = Alone(inflight[s].value, inflight[s].answers)
            /\ OwnRecord(inflight[s])
            /\ \A c \in Range(inflight[s].calls) :
                  c.op # "sendIFCFile" => c.key = FileIdOf(inflight[s].value)

\* two invocations for different messages, each resumed while the other was
\* waiting, both about to forward their own content and metadata
C16_Witness ==
    /\ inflight[1].pc = "sendIFCFile"
    /\ inflight[2].pc = "sendIFCFile"
    /\ inflight[1].value # inflight[2].value
    /\ inflight[1].calls[3].data =
         [project |-> "P1", filename |-> "model.ifc", timestamp |-> "T1", file |-> Blob("B1")]
    /\ inflight[2].calls[3].data =
         [project |-> "P2", filename |-> "other.ifc", timestamp |-> "T2", file |-> Blob("B2")]

====
